---- MODULE Spec2Model ----
(***************************************************************************)
(* Model of scribe-server's request handler (server.Server.ServeHTTP and   *)
(* server.Server.tryServeFile).                                            *)
(*                                                                         *)
(* Strings are sequences of tokens.  "/" and "." are one-character tokens; *)
(* every other token is a run of letters that holds neither of them, so    *)
(* the scans the code does for '/' and '.' are scans for these tokens.     *)
(***************************************************************************)
EXTENDS Naturals, Sequences, FiniteSets

VARIABLES cfg, fs, clients, req

vars == <<cfg, fs, clients, req>>

\* ------------------------------------------------------------------ bounds

\* Largest number of '/'-separated elements of a generated request path.
MaxSegs == 2

\* Number of requests handled concurrently in the concurrent specifications.
MaxConns == 2

\* ----------------------------------------------------------------- strings

Slash == "/"
Dot == "."
DotSeg == <<".">>
DotDotSeg == <<".", ".">>

Last(s) == s[Len(s)]
Front(s) == SubSeq(s, 1, Len(s) - 1)

\* strings.HasSuffix(p, "/")
HasSuffixSlash(p) == Len(p) > 0 /\ Last(p) = Slash

\* The elements of p between its separators, empty ones included.
RECURSIVE SplitFrom(_, _, _, _)
SplitFrom(p, i, cur, acc) ==
    IF i > Len(p) THEN Append(acc, cur)
    ELSE IF p[i] = Slash THEN SplitFrom(p, i + 1, <<>>, Append(acc, cur))
    ELSE SplitFrom(p, i + 1, Append(cur, p[i]), acc)

Segments(p) == SplitFrom(p, 1, <<>>, <<>>)

\* The elements joined by single separators.
RECURSIVE JoinSegs(_)
JoinSegs(segs) ==
    IF Len(segs) = 0 THEN <<>>
    ELSE IF Len(segs) = 1 THEN segs[1]
    ELSE segs[1] \o <<Slash>> \o JoinSegs(Tail(segs))

\* The element loop of filepath.Clean: empty and "." elements are dropped, a
\* ".." removes the element before it, is dropped at the root of a rooted
\* path and is kept at the front of a relative one.
RECURSIVE CleanFold(_, _, _, _)
CleanFold(segs, i, out, rooted) ==
    IF i > Len(segs) THEN out
    ELSE LET s == segs[i] IN
         IF s = <<>> \/ s = DotSeg THEN CleanFold(segs, i + 1, out, rooted)
         ELSE IF s = DotDotSeg THEN
              IF Len(out) > 0 /\ Last(out) # DotDotSeg
              THEN CleanFold(segs, i + 1, Front(out), rooted)
              ELSE IF rooted THEN CleanFold(segs, i + 1, out, rooted)
              ELSE CleanFold(segs, i + 1, Append(out, s), rooted)
         ELSE CleanFold(segs, i + 1, Append(out, s), rooted)

\* filepath.Clean
Clean(p) ==
    IF p = <<>> THEN DotSeg
    ELSE LET rooted == p[1] = Slash
             out == CleanFold(Segments(p), 1, <<>>, rooted)
         IN IF rooted THEN <<Slash>> \o JoinSegs(out)
            ELSE IF out = <<>> THEN DotSeg
            ELSE JoinSegs(out)

\* filepath.Join of two elements: empty elements are ignored, the rest are
\* joined by a separator and cleaned.
Join(a, b) ==
    IF a = <<>> /\ b = <<>> THEN <<>>
    ELSE IF a = <<>> THEN Clean(b)
    ELSE IF b = <<>> THEN Clean(a)
    ELSE Clean(a \o <<Slash>> \o b)

\* filepath.Ext: the suffix from the last '.' of the last element, or "".
RECURSIVE ExtFrom(_, _)
ExtFrom(p, i) ==
    IF i < 1 \/ p[i] = Slash THEN <<>>
    ELSE IF p[i] = Dot THEN SubSeq(p, i, Len(p))
    ELSE ExtFrom(p, i - 1)

Ext(p) == ExtFrom(p, Len(p))

\* strings.ToLower, token by token.
LowerTok(t) ==
    CASE t = "HTML" -> "html"
      [] t = "Html" -> "html"
      [] t = "CSS" -> "css"
      [] t = "Js" -> "js"
      [] t = "PNG" -> "png"
      [] t = "JPEG" -> "jpeg"
      [] t = "TXT" -> "txt"
      [] OTHER -> t

ToLower(s) == [i \in 1..Len(s) |-> LowerTok(s[i])]

HtmlExt == <<".", "html">>
IndexHtml == <<"index", ".", "html">>

\* ----------------------------------------------------------- configuration

\* server.Config.  NotFoundHandler is "nil" or "custom": the custom producer
\* is a function of the path it is given, CustomBody below.
Configs(roots) ==
    [RootDir : roots, AddHtmlExtension : BOOLEAN, EnableLogging : BOOLEAN,
     NotFoundHandler : {"nil", "custom"}]

\* -------------------------------------------------------------- filesystem

\* What a path of the filesystem is: nothing, a directory, a regular file, a
\* path whose stat fails with an error other than not-exist ("denied"), or a
\* regular file that stat reports and open refuses ("locked").
Kinds == {"absent", "dir", "file", "denied", "locked"}

Kind(p) == IF p \in DOMAIN fs THEN fs[p] ELSE "absent"

\* os.Stat: an error, a directory or a regular file.
Stat(p) ==
    CASE Kind(p) \in {"absent", "denied"} -> "err"
      [] Kind(p) = "dir" -> "dir"
      [] OTHER -> "regular"

\* os.Open of a path that stat reported: it fails on a locked file.
OpenFails(p) == Kind(p) # "file"

\* ---------------------------------------------------------------- requests

NoPath == <<>>

IdleReq ==
    [pc |-> "idle", url |-> NoPath, path |-> NoPath, fullPath |-> NoPath,
     try |-> 0, cand |-> NoPath, probed |-> <<>>, handles |-> {},
     served |-> NoPath, streamed |-> FALSE, status |-> 0, contentType |-> "",
     body |-> [kind |-> "none", arg |-> NoPath], nfCalls |-> <<>>,
     log |-> <<>>]

\* s.logger.Printf: the logger of a server built with logging disabled
\* writes to io.Discard.
Logf(log, msg, arg) ==
    IF cfg.EnableLogging THEN Append(log, [msg |-> msg, arg |-> arg]) ELSE log

\* NormalizePath without the call of filepath.Clean.
NormalizePathNoClean(raw) ==
    LET rewritten == IF raw = <<Slash>> THEN <<Slash>> \o IndexHtml ELSE raw
    IN IF Len(rewritten) > 1 /\ HasSuffixSlash(rewritten)
       THEN Front(rewritten) ELSE rewritten

\* ServeHTTP, from the request's URL path to the path it resolves.
NormalizePath(raw) ==
    LET cleaned == Clean(raw)
        rewritten == IF cleaned = <<Slash>> THEN <<Slash>> \o IndexHtml ELSE cleaned
    IN IF Len(rewritten) > 1 /\ HasSuffixSlash(rewritten)
       THEN Front(rewritten) ELSE rewritten

\* The file path of the k-th attempt of ServeHTTP.
Candidate(k, fullPath) ==
    CASE k = 1 -> fullPath
      [] k = 2 -> fullPath \o HtmlExt
      [] OTHER -> Join(fullPath, IndexHtml)

\* TriesHtml with the configuration's flag forgotten.
TriesHtmlAlways(r) == Ext(r.path) = <<>>

\* TriesIndex without the test of the URL path's trailing slash.
TriesIndexAlways(r) == TRUE

\* The conditions under which ServeHTTP makes its second and third attempt.
TriesHtml(r) == cfg.AddHtmlExtension /\ Ext(r.path) = <<>>
TriesIndex(r) == HasSuffixSlash(r.url)

\* One more than the last attempt: ServeHTTP goes on to the 404 response.
NoTry == 4

\* NextTry with the ".html" attempt left out.
NextTrySkipHtml(k, r) ==
    IF k < 3 /\ TriesIndex(r) THEN 3 ELSE NoTry

\* NextTry with index.html tried before ".html".
NextTryIndexFirst(k, r) ==
    IF k = 1 /\ TriesIndex(r) THEN 3
    ELSE IF k \in {1, 3} /\ TriesHtml(r) THEN 2
    ELSE NoTry

\* The attempt ServeHTTP makes after attempt k returned false.
NextTry(k, r) ==
    IF k < 2 /\ TriesHtml(r) THEN 2
    ELSE IF k < 3 /\ TriesIndex(r) THEN 3
    ELSE NoTry

\* AfterFalse with the directory redirect of a conventional file server: a
\* directory asked for without its trailing slash is answered with 301.
AfterFalseRedirect(r) ==
    LET n == NextTry(r.try, r) IN
    IF Stat(r.cand) = "dir" /\ ~HasSuffixSlash(r.url)
    THEN [r EXCEPT !.pc = "done", !.status = 301]
    ELSE IF n = NoTry THEN [r EXCEPT !.pc = "notfound"]
    ELSE [r EXCEPT !.pc = "stat", !.try = n, !.cand = Candidate(n, r.fullPath)]

\* tryServeFile returned false: ServeHTTP moves on.
AfterFalse(r) ==
    LET n == NextTry(r.try, r) IN
    IF n = NoTry THEN [r EXCEPT !.pc = "notfound"]
    ELSE [r EXCEPT !.pc = "stat", !.try = n, !.cand = Candidate(n, r.fullPath)]

\* getContentType without strings.ToLower.
getContentTypeCaseSensitive(ext) ==
    CASE ext = <<".", "html">> \/ ext = <<".", "htm">> -> "text/html"
      [] ext = <<".", "css">> -> "text/css"
      [] ext = <<".", "js">> -> "application/javascript"
      [] ext = <<".", "json">> -> "application/json"
      [] ext = <<".", "png">> -> "image/png"
      [] ext = <<".", "jpg">> \/ ext = <<".", "jpeg">> -> "image/jpeg"
      [] ext = <<".", "gif">> -> "image/gif"
      [] ext = <<".", "svg">> -> "image/svg+xml"
      [] ext = <<".", "xml">> -> "application/xml"
      [] ext = <<".", "pdf">> -> "application/pdf"
      [] ext = <<".", "txt">> -> "text/plain"
      [] OTHER -> ""

\* getContentType
getContentType(ext) ==
    LET e == ToLower(ext) IN
    CASE e = <<".", "html">> \/ e = <<".", "htm">> -> "text/html"
      [] e = <<".", "css">> -> "text/css"
      [] e = <<".", "js">> -> "application/javascript"
      [] e = <<".", "json">> -> "application/json"
      [] e = <<".", "png">> -> "image/png"
      [] e = <<".", "jpg">> \/ e = <<".", "jpeg">> -> "image/jpeg"
      [] e = <<".", "gif">> -> "image/gif"
      [] e = <<".", "svg">> -> "image/svg+xml"
      [] e = <<".", "xml">> -> "application/xml"
      [] e = <<".", "pdf">> -> "application/pdf"
      [] e = <<".", "txt">> -> "text/plain"
      [] OTHER -> ""

\* The bytes of the file at p, the bytes the custom producer returns for a
\* path, and the body http.NotFound writes.
FileBody(p) == [kind |-> "file", arg |-> p]
PartialBody(p) == [kind |-> "partial", arg |-> p]
CustomBody(p) == [kind |-> "custom", arg |-> p]
DefaultBody == [kind |-> "default404", arg |-> NoPath]

StatusOK == 200
StatusNotFound == 404

\* ------------------------------------------------------------------ inputs

RootAbs == <<"/", "srv">>

\* The request path "/" seg1 "/" seg2 ...
RawOf(segs) == <<Slash>> \o JoinSegs(segs)

\* The elements of generated request paths: the empty element (a repeated or
\* trailing separator), "..", a name without and a name with an extension;
\* and the same with "." added.
Segs == {<<>>, DotDotSeg, <<"a">>, <<"a", ".", "html">>}
DotSegs == Segs \cup {DotSeg}

SegSeqs(S, n) == UNION {[1..k -> S] : k \in 1..n}

RawPaths == {RawOf(ss) : ss \in SegSeqs(Segs, MaxSegs)}
DotPaths == {RawOf(ss) : ss \in SegSeqs(DotSegs, MaxSegs)}

\* A path and the same path with a trailing slash.
SlashPairs ==
    UNION {{RawOf(<<s>>), RawOf(<<s, <<>>>>)} : s \in {<<"a">>, <<"a", ".", "html">>}}

\* File extensions, in the table of getContentType and outside it, in lower,
\* upper and mixed case.
ExtToks ==
    {"html", "htm", "css", "js", "json", "png", "jpg", "jpeg", "gif", "svg",
     "xml", "pdf", "txt", "HTML", "Html", "CSS", "Js", "PNG", "JPEG", "TXT",
     "bin", "md"}

\* /f.<ext> for every extension, /f and /f/ for the fallbacks, /a for a file
\* with no extension.
MimePaths ==
    {RawOf(<<<<"f", ".", e>>>>) : e \in ExtToks}
        \cup {RawOf(<<<<"f">>>>), RawOf(<<<<"f">>, <<>>>>), RawOf(<<<<"a">>>>)}

\* The files of a site: a, a.html, a/index.html and index.html under the root.
FA(root) == Join(root, <<"a">>)
FAHtml(root) == Join(root, <<"a", ".", "html">>)
FAIndex(root) == Join(root, <<"a", "/">> \o IndexHtml)
FIndex(root) == Join(root, IndexHtml)

\* A directory entry exists only under a directory.
Sites(root, kinds) ==
    {f \in [{FA(root), FAHtml(root), FAIndex(root), FIndex(root)} -> kinds] :
        /\ f[FAIndex(root)] # "absent" => f[FA(root)] = "dir"
        /\ f[FIndex(root)] \in {"absent", "file"}}

\* The request paths the clients of a run send.
Requests(who) ==
    CASE who = "paths" -> RawPaths
      [] who = "dots" -> DotPaths
      [] who = "slash" -> SlashPairs
      [] who = "mime" -> MimePaths
      [] OTHER -> {}

\* A site with a file for every extension; f.html or f/index.html or neither.
MimeSites(root) ==
    {[p \in {Join(root, <<"f", ".", e>>) : e \in ExtToks}
             \cup {Join(root, <<"f">>), Join(root, <<"f", "/">> \o IndexHtml),
                   Join(root, <<"a">>)} |->
         IF p = Join(root, <<"f">>) THEN (IF idx THEN "dir" ELSE "absent")
         ELSE IF p = Join(root, <<"f", "/">> \o IndexHtml)
              THEN (IF idx THEN "file" ELSE "absent")
         ELSE IF p = Join(root, <<"f", ".", "html">>)
              THEN (IF html THEN "file" ELSE "absent")
         ELSE "file"] : idx \in BOOLEAN, html \in BOOLEAN}

\* Directory roots: absolute, relative, and relative through the parent.
Roots == {RootAbs, <<".", "/", "pub">>, <<".", ".", "/", "pub">>}

\* ----------------------------------------------------------------- actions

\* ServeHTTP up to its first call of tryServeFile.
Receive(c, raw) ==
    /\ req[c].pc = "idle"
    /\ LET path == NormalizePath(raw)
           fullPath == Join(cfg.RootDir, path)
           logged == IF Clean(raw) = <<Slash>> THEN <<Slash>> \o IndexHtml
                     ELSE Clean(raw)
       IN req' = [req EXCEPT ![c] =
                    [@ EXCEPT !.pc = "stat", !.url = raw, !.path = path,
                              !.fullPath = fullPath, !.try = 1,
                              !.cand = fullPath,
                              !.log = Logf(@, "Handling request for", logged)]]
    /\ UNCHANGED <<cfg, fs, clients>>

\* tryServeFile: os.Stat and the test of its result.
StatFile(c) ==
    /\ req[c].pc = "stat"
    /\ LET r == [req[c] EXCEPT !.probed = Append(@, req[c].cand)] IN
       req' = [req EXCEPT ![c] =
                 IF Stat(r.cand) = "regular" THEN [r EXCEPT !.pc = "open"]
                 ELSE AfterFalse(r)]
    /\ UNCHANGED <<cfg, fs, clients>>

\* OpenFile where a failed open ends the request with an error response.
OpenFileAborts(c) ==
    /\ req[c].pc = "open"
    /\ LET r == req[c] IN
       req' = [req EXCEPT ![c] =
                 IF OpenFails(r.cand)
                 THEN [r EXCEPT !.pc = "done", !.status = 500,
                                !.log = Logf(@, "Error opening file", r.cand)]
                 ELSE [r EXCEPT !.pc = "copy", !.handles = @ \cup {r.cand}]]
    /\ UNCHANGED <<cfg, fs, clients>>

\* tryServeFile: os.Open.
OpenFile(c) ==
    /\ req[c].pc = "open"
    /\ LET r == req[c] IN
       req' = [req EXCEPT ![c] =
                 IF OpenFails(r.cand)
                 THEN AfterFalse([r EXCEPT !.log = Logf(@, "Error opening file", r.cand)])
                 ELSE [r EXCEPT !.pc = "copy", !.handles = @ \cup {r.cand}]]
    /\ UNCHANGED <<cfg, fs, clients>>

\* tryServeFile: the Content-Type header and io.Copy, which may fail part way.
\* The first write commits the header with status 200.
CopyFile(c) ==
    /\ req[c].pc = "copy"
    /\ \E ok \in BOOLEAN :
         LET r == req[c]
             l1 == Logf(r.log, "Serving file", r.cand)
         IN req' = [req EXCEPT ![c] =
                      [r EXCEPT !.pc = "close",
                                !.contentType = getContentType(Ext(r.cand)),
                                !.status = StatusOK,
                                !.streamed = ok,
                                !.body = IF ok THEN FileBody(r.cand) ELSE PartialBody(r.cand),
                                !.log = IF ok THEN l1
                                        ELSE Logf(l1, "Error serving file", r.cand)]]
    /\ UNCHANGED <<cfg, fs, clients>>

\* CloseFile where tryServeFile returns false after a failed copy, so that
\* ServeHTTP moves on to its next attempt or to the 404 response.
CloseFileFalseOnCopyError(c) ==
    /\ req[c].pc = "close"
    /\ LET r == [req[c] EXCEPT !.handles = @ \ {req[c].cand}] IN
       req' = [req EXCEPT ![c] =
                 IF r.streamed THEN [r EXCEPT !.pc = "done", !.served = r.cand]
                 ELSE AfterFalse(r)]
    /\ UNCHANGED <<cfg, fs, clients>>

\* CloseFile with the close placed after a successful copy only: a failed
\* copy returns with the file still open.
CloseFileLeaksOnError(c) ==
    /\ req[c].pc = "close"
    /\ req' = [req EXCEPT ![c] =
                 [@ EXCEPT !.pc = "done",
                           !.handles = IF req[c].streamed THEN @ \ {req[c].cand} ELSE @,
                           !.served = req[c].cand]]
    /\ UNCHANGED <<cfg, fs, clients>>

\* tryServeFile: the deferred file.Close and the return of true, on which
\* ServeHTTP returns.
CloseFile(c) ==
    /\ req[c].pc = "close"
    /\ req' = [req EXCEPT ![c] =
                 [@ EXCEPT !.pc = "done", !.handles = @ \ {req[c].cand},
                           !.served = req[c].cand]]
    /\ UNCHANGED <<cfg, fs, clients>>

\* NotFoundArg with the URL path as it came.
NotFoundArgRaw(r) == r.url

\* The path ServeHTTP hands to the custom not-found handler.
NotFoundArg(r) == r.path

\* ServeHTTP after its last attempt: the 404 response.
NotFound(c) ==
    /\ req[c].pc = "notfound"
    /\ LET r == [req[c] EXCEPT !.log = Logf(@, "Not found", req[c].path)] IN
       req' = [req EXCEPT ![c] =
                 IF cfg.NotFoundHandler # "nil"
                 THEN [r EXCEPT !.pc = "done", !.nfCalls = Append(@, NotFoundArg(r)),
                                !.status = StatusNotFound,
                                !.body = CustomBody(NotFoundArg(r))]
                 ELSE [r EXCEPT !.pc = "done", !.status = StatusNotFound,
                                !.contentType = "text/plain; charset=utf-8",
                                !.body = DefaultBody]]
    /\ UNCHANGED <<cfg, fs, clients>>

Conns == DOMAIN req

Next ==
    \/ \E c \in Conns : \E raw \in Requests(clients) : Receive(c, raw)
    \/ \E c \in Conns : StatFile(c)
    \/ \E c \in Conns : OpenFile(c)
    \/ \E c \in Conns : CopyFile(c)
    \/ \E c \in Conns : CloseFile(c)
    \/ \E c \in Conns : NotFound(c)

\* ---------------------------------------------------------- specifications

\* One request at a time: every configuration, every site, every path.
Init ==
    /\ cfg \in Configs({RootAbs})
    /\ fs \in Sites(cfg.RootDir, Kinds)
    /\ clients = "paths"
    /\ req = [c \in {1} |-> IdleReq]

Spec == Init /\ [][Next]_vars

\* Concurrent requests for a path and for the same path with a trailing slash.
InitPair ==
    /\ cfg \in {k \in Configs({RootAbs}) :
                   k.EnableLogging /\ k.NotFoundHandler = "nil"}
    /\ fs \in {f \in Sites(cfg.RootDir, {"absent", "dir", "file", "locked"}) :
                  /\ f[FIndex(cfg.RootDir)] = "absent"
                  /\ f[FAHtml(cfg.RootDir)] \in {"absent", "file"}
                  /\ f[FAIndex(cfg.RootDir)] # "locked"}
    /\ clients = "slash"
    /\ req = [c \in 1..MaxConns |-> IdleReq]

SpecPair == InitPair /\ [][Next]_vars

\* One request at a time, under several root directories.
InitRoots ==
    /\ cfg \in {k \in Configs(Roots) :
                   ~k.EnableLogging /\ k.NotFoundHandler = "nil"}
    /\ fs \in Sites(cfg.RootDir, {"absent", "dir", "file"})
    /\ clients = "dots"
    /\ req = [c \in {1} |-> IdleReq]

SpecRoots == InitRoots /\ [][Next]_vars

\* One request at a time, for files of every extension.
InitMime ==
    /\ cfg \in {k \in Configs({RootAbs}) : k.NotFoundHandler = "nil"}
    /\ fs \in MimeSites(cfg.RootDir)
    /\ clients = "mime"
    /\ req = [c \in {1} |-> IdleReq]

SpecMime == InitMime /\ [][Next]_vars

\* ------------------------------------------------------------- properties

Done(c) == req[c].pc = "done"

\* C1: every response has status 200 or 404, whatever the path, the
\* filesystem and the configuration; before anything is written the status
\* is unset, and no 3xx status is ever written.
C1_StatusIs200Or404 ==
    \A c \in Conns :
        /\ req[c].status \in {0, 200, 404}
        /\ Done(c) => req[c].status \in {200, 404}
        /\ req[c].status = 0 => req[c].pc \in {"idle", "stat", "open", "copy", "notfound"}

\* A request for a directory without a trailing slash, where a conventional
\* file server redirects, has ended with 404.
C1_Witness ==
    \E c \in Conns :
        /\ Done(c)
        /\ ~HasSuffixSlash(req[c].url)
        /\ Kind(req[c].fullPath) = "dir"
        /\ req[c].status = 404

\* The candidates of a request, written out from its URL path: A is the root
\* joined with the cleaned path ("/" read as "/index.html"), B is A with
\* ".html" appended, C is index.html inside A.
ExpectedPath(url) ==
    LET k == Clean(url) IN IF k = <<Slash>> THEN <<Slash>> \o IndexHtml ELSE k

CandA(c) == Join(cfg.RootDir, ExpectedPath(req[c].url))
CandB(c) == CandA(c) \o HtmlExt
CandC(c) == Join(CandA(c), IndexHtml)

\* The candidates a request may try, in order.
Tried(c) ==
    <<CandA(c)>>
        \o (IF cfg.AddHtmlExtension /\ Ext(ExpectedPath(req[c].url)) = <<>>
            THEN <<CandB(c)>> ELSE <<>>)
        \o (IF HasSuffixSlash(req[c].url) THEN <<CandC(c)>> ELSE <<>>)

\* A regular file that can be opened.
Servable(p) == Kind(p) = "file"

\* The position of the first servable candidate, 0 when there is none.
FirstServable(t) ==
    IF \E i \in 1..Len(t) : Servable(t[i])
    THEN CHOOSE i \in 1..Len(t) :
             Servable(t[i]) /\ \A j \in 1..(i - 1) : ~Servable(t[j])
    ELSE 0

IsPrefix(a, b) == Len(a) <= Len(b) /\ a = SubSeq(b, 1, Len(a))

\* C3: index.html of a directory is tried only for a URL path that ends with
\* '/': with d/index.html a file and neither d nor d.html a file, /d/ is
\* answered 200 with d/index.html and /d is answered 404 without d/index.html
\* being probed, whether or not extension-append is enabled.
C3_IndexOnlyOnTrailingSlash ==
    \A c \in Conns :
        (Done(c) /\ Kind(CandC(c)) = "file" /\ Kind(CandA(c)) # "file"
                 /\ Kind(CandB(c)) # "file") =>
            IF HasSuffixSlash(req[c].url)
            THEN /\ req[c].status = 200
                 /\ req[c].served = CandC(c)
                 /\ req[c].streamed => req[c].body = FileBody(CandC(c))
            ELSE /\ req[c].status = 404
                 /\ req[c].served = NoPath
                 /\ \A i \in 1..Len(req[c].probed) : req[c].probed[i] # CandC(c)

\* /d has been answered 404 although d/index.html is a file, with
\* extension-append enabled.
C3_Witness ==
    \E c \in Conns :
        /\ Done(c)
        /\ cfg.AddHtmlExtension
        /\ ~HasSuffixSlash(req[c].url)
        /\ Kind(CandA(c)) = "dir"
        /\ Kind(CandB(c)) = "absent"
        /\ Kind(CandC(c)) = "file"
        /\ req[c].status = 404

\* C4: the candidates are probed in the order A, B, C, each only under its
\* condition and never past the first servable one; at most three are
\* probed; the file served is the first servable candidate, and the outcome
\* is 404 exactly when no tried candidate is servable.
C4_FirstServableCandidateWins ==
    \A c \in Conns :
        LET t == Tried(c)
            i == FirstServable(t)
        IN req[c].pc # "idle" =>
             /\ Len(req[c].probed) <= 3
             /\ IsPrefix(req[c].probed, t)
             /\ i > 0 => Len(req[c].probed) <= i
             /\ Done(c) =>
                  IF i > 0
                  THEN /\ req[c].served = t[i]
                       /\ req[c].status = 200
                       /\ req[c].probed = SubSeq(t, 1, i)
                  ELSE /\ req[c].served = NoPath
                       /\ req[c].status = 404
                       /\ req[c].probed = t

\* /a/ has been answered with a.html although a/index.html is a file too.
C4_Witness ==
    \E c \in Conns :
        /\ Done(c)
        /\ HasSuffixSlash(req[c].url)
        /\ Kind(CandA(c)) = "dir"
        /\ Kind(CandC(c)) = "file"
        /\ req[c].served = CandB(c)
        /\ Len(req[c].probed) = 2

\* C5: with extension-append disabled the ".html" candidate is never probed:
\* a request for p, without extension and without trailing slash, where
\* p.html is a file and p is not, is answered 404, and the request for a file
\* named with its ".html" is answered 200 with that file.
C5_NoHtmlCandidateWhenDisabled ==
    ~cfg.AddHtmlExtension =>
        \A c \in Conns :
            /\ \A i \in 1..Len(req[c].probed) : req[c].probed[i] # CandB(c)
            /\ (Done(c) /\ ~HasSuffixSlash(req[c].url)
                        /\ Ext(ExpectedPath(req[c].url)) = <<>>
                        /\ Kind(CandB(c)) = "file" /\ Kind(CandA(c)) # "file") =>
                   (req[c].status = 404 /\ req[c].served = NoPath)
            /\ (Done(c) /\ Ext(ExpectedPath(req[c].url)) = HtmlExt
                        /\ Kind(CandA(c)) = "file") =>
                   /\ req[c].status = 200
                   /\ req[c].served = CandA(c)
                   /\ req[c].streamed => req[c].body = FileBody(CandA(c))

\* With extension-append disabled, a request for p has been answered 404
\* although p.html is a file.
C5_Witness ==
    \E c \in Conns :
        /\ ~cfg.AddHtmlExtension
        /\ Done(c)
        /\ ~HasSuffixSlash(req[c].url)
        /\ Ext(ExpectedPath(req[c].url)) = <<>>
        /\ Kind(CandA(c)) = "absent"
        /\ Kind(CandB(c)) = "file"
        /\ req[c].status = 404

\* C6: a 404 with a custom handler configured calls the handler exactly once,
\* with the cleaned path without trailing slash, and the body is what the
\* handler returned for it; a 404 with no handler carries the default body;
\* a request that serves a file, or has not ended, has called no handler.
C6_NotFoundHandlerCalledOnce ==
    \A c \in Conns :
        /\ (Done(c) /\ req[c].status = 404 /\ cfg.NotFoundHandler = "custom") =>
               /\ req[c].nfCalls = <<ExpectedPath(req[c].url)>>
               /\ ~HasSuffixSlash(req[c].nfCalls[1])
               /\ req[c].body = CustomBody(ExpectedPath(req[c].url))
        /\ (Done(c) /\ req[c].status = 404 /\ cfg.NotFoundHandler = "nil") =>
               /\ req[c].nfCalls = <<>>
               /\ req[c].body = DefaultBody
        /\ (~Done(c) \/ req[c].status # 404) => req[c].nfCalls = <<>>

\* A request whose URL path ends with '/' and is not clean has been answered
\* by the custom handler.
C6_Witness ==
    \E c \in Conns :
        /\ Done(c)
        /\ cfg.NotFoundHandler = "custom"
        /\ HasSuffixSlash(req[c].url)
        /\ Len(req[c].url) > 1
        /\ req[c].url # ExpectedPath(req[c].url) \o <<Slash>>
        /\ req[c].status = 404
        /\ req[c].body.kind = "custom"

\* Requests c and d have ended, c for a path p without trailing slash and d
\* for p/.
SlashPair(c, d) ==
    /\ Done(c) /\ Done(d)
    /\ ~HasSuffixSlash(req[c].url)
    /\ req[d].url = req[c].url \o <<Slash>>

SameFound(c, d) == req[c].served # NoPath /\ req[c].served = req[d].served

\* C2 as claimed: p and p/ resolve to the same found file whenever p.html is
\* a file or p/index.html is a file.
C2_SameTargetWheneverHtmlOrIndexExists ==
    \A c, d \in Conns :
        (SlashPair(c, d) /\ (Kind(CandB(c)) = "file" \/ Kind(CandC(c)) = "file")) =>
            SameFound(c, d)

\* C2 as amended: p and p/ resolve to the same found file whenever p is a
\* servable file, or extension-append is enabled, p has no extension and
\* p.html is a servable file; when neither holds and p/index.html is a
\* servable file, p/ is answered with it and p is answered 404.
C2_SameTargetWhenExactOrHtmlServable ==
    \A c, d \in Conns :
        SlashPair(c, d) =>
            IF \/ Kind(CandA(c)) = "file"
               \/ /\ cfg.AddHtmlExtension
                  /\ Ext(ExpectedPath(req[c].url)) = <<>>
                  /\ Kind(CandB(c)) = "file"
            THEN SameFound(c, d) /\ req[c].status = 200 /\ req[d].status = 200
            ELSE /\ req[c].served = NoPath /\ req[c].status = 404
                 /\ Kind(CandC(c)) = "file" =>
                        req[d].served = CandC(c) /\ req[d].status = 200
                 /\ Kind(CandC(c)) # "file" =>
                        req[d].served = NoPath /\ req[d].status = 404

\* /a and /a/ have both been answered with a.html while a/index.html is a
\* file too.
C2_Witness ==
    \E c, d \in Conns :
        /\ SlashPair(c, d)
        /\ Kind(CandC(c)) = "file"
        /\ req[c].served = CandB(c)
        /\ req[d].served = CandB(c)

\* The file path p lies inside the directory root: below the cleaned root,
\* through elements none of which is empty, "." or "..".
Inside(root, p) ==
    LET r == Clean(root)
        rest == SubSeq(p, Len(r) + 2, Len(p))
    IN /\ Len(p) > Len(r) + 1
       /\ SubSeq(p, 1, Len(r)) = r
       /\ p[Len(r) + 1] = Slash
       /\ \A i \in 1..Len(Segments(rest)) :
              Segments(rest)[i] \notin {<<>>, DotSeg, DotDotSeg}

\* C7: whatever '.', '..' and repeated separators a URL path beginning with
\* '/' holds, every file path that is probed, opened or served lies inside
\* the root directory.
C7_CandidatesStayInsideRoot ==
    \A c \in Conns :
        /\ \A i \in 1..Len(req[c].probed) : Inside(cfg.RootDir, req[c].probed[i])
        /\ \A h \in req[c].handles : Inside(cfg.RootDir, h)
        /\ req[c].served # NoPath => Inside(cfg.RootDir, req[c].served)
        /\ req[c].pc # "idle" => req[c].url[1] = Slash

\* A URL path that begins with ".." has been answered with a file, under a
\* root directory that is itself reached through "..".
C7_Witness ==
    \E c \in Conns :
        /\ Done(c)
        /\ cfg.RootDir = <<".", ".", "/", "pub">>
        /\ Segments(req[c].url)[2] = DotDotSeg
        /\ req[c].served # NoPath

\* The table of content types, by lower-case extension.
ContentTypeTable ==
    {<<"html", "text/html">>, <<"htm", "text/html">>, <<"css", "text/css">>,
     <<"js", "application/javascript">>, <<"json", "application/json">>,
     <<"png", "image/png">>, <<"jpg", "image/jpeg">>, <<"jpeg", "image/jpeg">>,
     <<"gif", "image/gif">>, <<"svg", "image/svg+xml">>,
     <<"xml", "application/xml">>, <<"pdf", "application/pdf">>,
     <<"txt", "text/plain">>}

\* The header the table gives a file path: "" stands for no header.
TableType(p) ==
    LET e == ToLower(Ext(p))
        rows == {row \in ContentTypeTable : e = <<Dot, row[1]>>}
    IN IF rows = {} THEN "" ELSE (CHOOSE row \in rows : TRUE)[2]

\* C8: a served file's Content-Type is the table's entry for its extension,
\* compared without regard to case, and is not set when the table has none;
\* a file served by the ".html" or the index.html attempt gets text/html.
C8_ContentTypeFromTable ==
    \A c \in Conns :
        req[c].pc \in {"close", "done"} /\ req[c].status = 200 =>
            /\ req[c].contentType = TableType(req[c].cand)
            /\ req[c].cand \in {CandB(c), CandC(c)} => req[c].contentType = "text/html"

\* A file with an upper-case extension has been served as text/html.
C8_Witness ==
    \E c \in Conns :
        /\ Done(c)
        /\ Ext(req[c].served) = <<".", "HTML">>
        /\ req[c].contentType = "text/html"

\* Request c is about to hit a filesystem error on its candidate: a stat
\* that fails with an error other than not-exist, or an open that fails
\* after the stat succeeded.
AtFault(c) ==
    \/ req[c].pc = "stat" /\ Kind(req[c].cand) = "denied"
    \/ req[c].pc = "open" /\ Kind(req[c].cand) = "locked"

\* The position of request c's candidate among the candidates it may try.
CandIndex(c) == CHOOSE i \in 1..Len(Tried(c)) : Tried(c)[i] = req[c].cand

\* C9: a step that hits a filesystem error on a candidate leaves the request
\* where the candidate's absence would: nothing is written to the response,
\* no file is open or served, and the request goes on to the next candidate
\* it may try, or to the 404 response when there is none.
C9_FaultHandledLikeAbsence ==
    [][\A c \in Conns :
          (AtFault(c) /\ req'[c] # req[c]) =>
              /\ req'[c].status = 0
              /\ req'[c].served = NoPath
              /\ req'[c].handles = {}
              /\ req'[c].body = req[c].body
              /\ IF CandIndex(c) < Len(Tried(c))
                 THEN /\ req'[c].pc = "stat"
                      /\ req'[c].cand = Tried(c)[CandIndex(c) + 1]
                 ELSE req'[c].pc = "notfound"]_vars

\* A request has been answered with a.html after a could not be opened.
C9_Witness ==
    \E c \in Conns :
        /\ Done(c)
        /\ Kind(CandA(c)) = "locked"
        /\ req[c].probed = <<CandA(c), CandB(c)>>
        /\ req[c].served = CandB(c)
        /\ req[c].status = 200

\* The messages with which the server logs a filesystem error.
ErrorMessages == {"Error opening file", "Error serving file", "Error checking file"}

\* C10 as claimed: with logging enabled, every filesystem error other than
\* not-exist met on a candidate, at its stat or at its open, has a line of
\* its own in the log.
C10_EveryFaultLogged ==
    cfg.EnableLogging =>
        \A c \in Conns :
            \A i \in 1..Len(req[c].probed) :
                (/\ Kind(req[c].probed[i]) \in {"denied", "locked"}
                 /\ (i < Len(req[c].probed) \/ req[c].pc \in {"notfound", "done"})) =>
                    \E j \in 1..Len(req[c].log) :
                        /\ req[c].log[j].arg = req[c].probed[i]
                        /\ req[c].log[j].msg \in ErrorMessages

\* C11: under every interleaving of the requests, a request holds at most
\* one open file, and only between its open and its deferred close, where
\* the file is its candidate; a request that has ended, by a served file, a
\* failed copy or a 404, holds none, so none is open once all have ended.
C11_HandlesClosedWithinRequest ==
    /\ \A c \in Conns :
           /\ Cardinality(req[c].handles) <= 1
           /\ req[c].pc \in {"copy", "close"} => req[c].handles = {req[c].cand}
           /\ req[c].pc \notin {"copy", "close"} => req[c].handles = {}
    /\ (\A c \in Conns : Done(c)) => UNION {req[c].handles : c \in Conns} = {}

\* One request has ended after a failed copy, and after a failed open of an
\* earlier candidate, while another request holds the same file open.
C11_Witness ==
    \E c, d \in Conns :
        /\ Done(c)
        /\ req[c].status = 200
        /\ ~req[c].streamed
        /\ Len(req[c].probed) > 1
        /\ Kind(req[c].probed[1]) = "locked"
        /\ req[d].pc = "close"
        /\ req[d].handles = {req[c].served}

\* The lines of a log with the given message.
LinesOf(log, msg) == {j \in 1..Len(log) : log[j].msg = msg}

\* C12: once the copy of a found file has failed, the request only ends, with
\* that candidate as the file served: the copy was made once, the candidate
\* is the last one probed, the response holds the part of the file that was
\* written and neither the handler's bytes nor the default 404 body, the
\* handler was not called, and with logging enabled the failure is the last
\* line of the log.
C12_FailedCopyCountsAsServed ==
    \A c \in Conns :
        (req[c].status = 200 /\ ~req[c].streamed) =>
            /\ req[c].pc \in {"close", "done"}
            /\ Done(c) => req[c].served = req[c].cand
            /\ req[c].probed # <<>> /\ Last(req[c].probed) = req[c].cand
            /\ req[c].body = PartialBody(req[c].cand)
            /\ req[c].nfCalls = <<>>
            /\ cfg.EnableLogging =>
                   /\ Last(req[c].log) = [msg |-> "Error serving file", arg |-> req[c].cand]
                   /\ Cardinality(LinesOf(req[c].log, "Error serving file")) = 1
                   /\ Cardinality(LinesOf(req[c].log, "Serving file")) = 1
                   /\ LinesOf(req[c].log, "Not found") = {}
            /\ ~cfg.EnableLogging => req[c].log = <<>>

\* The copy of a has failed and the request has ended, with logging enabled
\* and a handler configured, although a.html is a servable file that
\* extension-append would have tried next.
C12_Witness ==
    \E c \in Conns :
        /\ Done(c)
        /\ req[c].status = 200
        /\ ~req[c].streamed
        /\ cfg.EnableLogging
        /\ cfg.AddHtmlExtension
        /\ cfg.NotFoundHandler = "custom"
        /\ req[c].served = CandA(c)
        /\ Ext(req[c].path) = <<>>
        /\ Kind(CandB(c)) = "file"

====
